---------------------------- MODULE Spec2Model ----------------------------
(***************************************************************************)
(* Model of the sound-change applier: the grapheme tokenizer, the          *)
(* serializer and Word.find of core.py, and the rule parser, matcher and   *)
(* ruleset driver of sce.py.                                               *)
(*                                                                         *)
(* A Python string is a sequence of one-character strings; a token         *)
(* (grapheme) is such a string, a word's phones a sequence of tokens.      *)
(* A Python exception is a record [exc |-> name]; "none" is a normal       *)
(* return.                                                                 *)
(***************************************************************************)
EXTENDS Integers, Sequences, FiniteSets, TLC

\* Longest input text handed to the tokenizer.
MaxText == 4
\* Longest text of the word a rule is applied to, and the most applications made to it.
MaxWord == 3
MaxApply == 2
\* Longest ruleset (number of lines of strm) handed to the driver.
MaxLines == 3

(***************************************************************************)
(* Python's str and list operations, as the code uses them.                *)
(***************************************************************************)
Min(a, b) == IF a < b THEN a ELSE b
Max(a, b) == IF a > b THEN a ELSE b

\* c in s (c one character)
Has(s, c) == \E i \in DOMAIN s : s[i] = c

\* s.count(c)
Count(s, c) == Cardinality({i \in DOMAIN s : s[i] = c})

\* s.find(c) for one character: 0-based index of the first c, or -1
FindChar(s, c) ==
    IF Has(s, c) THEN (CHOOSE i \in DOMAIN s : s[i] = c /\ \A j \in 1..(i-1) : s[j] # c) - 1
    ELSE -1

\* s[a:b] with 0 <= a, Python slice (clamped)
Slice(s, a, b) == SubSeq(s, Min(a, Len(s)) + 1, Min(b, Len(s)))

\* s[a:]
From(s, a) == Slice(s, a, Len(s))

\* s[::-1]
Reversed(s) == [i \in 1..Len(s) |-> s[Len(s) + 1 - i]]

\* g.startswith(t)
StartsWith(g, t) == Len(t) <= Len(g) /\ SubSeq(g, 1, Len(t)) = t

\* t in g for strings: t is a substring of g
IsSubstr(t, g) == \E i \in 0..(Len(g) - Len(t)) : SubSeq(g, i + 1, i + Len(t)) = t

\* x in l for lists
InList(x, l) == \E i \in DOMAIN l : l[i] = x

RECURSIVE Flatten(_)
\* "".join(l)
Flatten(l) == IF l = <<>> THEN <<>> ELSE Head(l) \o Flatten(Tail(l))

RECURSIVE Join(_, _)
\* sep.join(l)
Join(l, sep) ==
    IF l = <<>> THEN <<>>
    ELSE IF Len(l) = 1 THEN l[1]
    ELSE l[1] \o sep \o Join(Tail(l), sep)

RECURSIVE SplitOn(_, _)
\* s.split(c): every piece, the empty ones too
SplitOn(s, c) ==
    IF ~Has(s, c) THEN <<s>>
    ELSE LET i == FindChar(s, c) IN <<Slice(s, 0, i)>> \o SplitOn(From(s, i + 1), c)

\* s.split(): split at runs of whitespace, no empty pieces
SplitWS(s) == SelectSeq(SplitOn(s, " "), LAMBDA t : t # <<>>)

\* s.replace(c, d) for one-character c and any string d
ReplaceChar(s, c, d) == Flatten([i \in DOMAIN s |-> IF s[i] = c THEN d ELSE <<s[i]>>])

RECURSIVE LStrip(_, _)
\* s.lstrip(chars)
LStrip(s, chars) ==
    IF s # <<>> /\ Head(s) \in chars THEN LStrip(Tail(s), chars) ELSE s

\* s.strip(chars)
Strip(s, chars) == Reversed(LStrip(Reversed(LStrip(s, chars)), chars))

(***************************************************************************)
(* core.py: the tokenizer parse_word and Word.__init__ / Word.__str__.     *)
(***************************************************************************)

\* any(g.startswith(test) for g in polygraphs)
BeginsPolygraph(test, polygraphs) ==
    \E k \in DOMAIN polygraphs : StartsWith(polygraphs[k], test)

\* for i in reversed(range(1, len(test)+1)): the first i with i == 1 or test[:i] in polygraphs
LongestGraph(test, polygraphs) ==
    CHOOSE i \in 1..Len(test) :
        /\ (i = 1 \/ InList(Slice(test, 0, i), polygraphs))
        /\ \A j \in (i+1)..Len(test) : ~(j = 1 \/ InList(Slice(test, 0, j), polygraphs))

RECURSIVE PeelGraphs(_, _, _, _)
\* the while loop of parse_word: returns <<test, graphemes>>
PeelGraphs(test, graphemes, sep, polygraphs) ==
    IF Len(test) > 1 /\ ~BeginsPolygraph(test, polygraphs)
    THEN LET i == LongestGraph(test, polygraphs)
         IN PeelGraphs(LStrip(From(test, i), {sep}),
                       Append(graphemes, Slice(test, 0, i)), sep, polygraphs)
    ELSE <<test, graphemes>>

RECURSIVE ScanChars(_, _, _, _, _)
\* the for loop of parse_word over the characters of the prepared string
ScanChars(chars, test, graphemes, sep, polygraphs) ==
    IF chars = <<>> THEN graphemes
    ELSE LET r == PeelGraphs(Append(test, Head(chars)), graphemes, sep, polygraphs)
         IN ScanChars(Tail(chars), r[1], r[2], sep, polygraphs)

\* '#'.join(f'.{word}.'.split()).strip('.') + sep
PrepareText(word, sep) ==
    Strip(Join(SplitWS(<<".">> \o word \o <<".">>), <<"#">>), {"."}) \o <<sep>>

parse_word(word, sep, polygraphs) ==
    ScanChars(PrepareText(word, sep), <<>>, <<>>, sep, polygraphs)

\* Word.__init__(lexeme, graphs=graphs) for a str lexeme: the phones
\* (sep = graphs[0], polygraphs = [g for g in graphs if len(g) > 1])
WordPolygraphs(graphs) == SelectSeq(graphs, LAMBDA g : Len(g) > 1)

WordInit(lexeme, graphs) ==
    parse_word(<<" ">> \o lexeme \o <<" ">>, graphs[1][1], WordPolygraphs(graphs))

\* first loop of __str__: some poly has graph in poly and graph != poly
InsidePolygraph(graph, polygraphs) ==
    \E k \in DOMAIN polygraphs : IsSubstr(graph, polygraphs[k]) /\ graph # polygraphs[k]

\* second loop of __str__: the first poly with curr in poly (0 when there is none)
FirstHolding(curr, polygraphs) ==
    IF \E k \in DOMAIN polygraphs : IsSubstr(curr, polygraphs[k])
    THEN CHOOSE k \in DOMAIN polygraphs :
            /\ IsSubstr(curr, polygraphs[k])
            /\ \A j \in 1..(k-1) : ~IsSubstr(curr, polygraphs[j])
    ELSE 0

RECURSIVE StrLoop(_, _, _, _, _)
\* the for loop of Word.__str__ over self.phones: returns word
StrLoop(phones, word, curr, sep, polygraphs) ==
    IF phones = <<>> THEN word
    ELSE LET graph == Head(phones)
             curr1 == IF InsidePolygraph(graph, polygraphs) THEN curr \o graph ELSE <<>>
             k     == FirstHolding(curr1, polygraphs)
             full  == k # 0 /\ curr1 = polygraphs[k]
             word1 == IF full THEN Append(word, sep) ELSE word
             curr2 == IF k = 0 THEN From(curr1, 1)
                      ELSE IF full THEN graph ELSE curr1
         IN StrLoop(Tail(phones), word1 \o graph, curr2, sep, polygraphs)

\* Word.__str__: word.strip(sep + '#').replace('#', ' ')
WordStr(phones, sep, polygraphs) ==
    ReplaceChar(Strip(StrLoop(phones, <<>>, <<>>, sep, polygraphs), {sep, "#"}), "#", <<" ">>)


(***************************************************************************)
(* sce.py: module globals, exceptions.                                     *)
(***************************************************************************)

\* Graphs = []  (never assigned by run)
Graphs == <<>>

\* Sep = "'"
Sep == "'"

\* a normal return of value v / an exception of class e leaving the call
Ok(v) == [exc |-> "none", val |-> v]
Raise(e) == [exc |-> e, val |-> <<>>]

\* x.replace(",", " ").split()
SplitList(s) == SplitWS(ReplaceChar(s, ",", <<" ">>))

(***************************************************************************)
(* sce.py: Rule.__init__ and the field parsers.                            *)
(***************************************************************************)

\* for char in "()[]{}|#*_": syms = syms.replace(char, "."+char+".")
Specials == {"(", ")", "[", "]", "{", "}", "|", "#", "*", "_"}
WrapSpecials(syms) ==
    Flatten([i \in DOMAIN syms |->
                IF syms[i] \in Specials THEN <<".", syms[i], ".">> ELSE <<syms[i]>>])

\* the bracket loop of parseSyms, for i in reversed(range(len(syms))): closers are
\* pushed on ends; the first opener met (the rightmost) raises in every case:
\* ends[-1] on an empty list, the interleave FormatError, or ends[n].pop() on an int
ProcessBrackets(syms) ==
    LET opens == {i \in DOMAIN syms : syms[i] \in {<<"(">>, <<"[">>, <<"{">>}}
    IN IF opens = {} THEN Ok(syms)
       ELSE LET i    == CHOOSE k \in opens : \A m \in opens : m <= k
                ends == {k \in DOMAIN syms : k > i /\ syms[k] \in {<<")">>, <<"]">>, <<"}">>}}
                last == CHOOSE k \in ends : \A m \in ends : k <= m
                need == CASE syms[i] = <<"(">> -> 1
                          [] syms[i] = <<"[">> -> 2
                          [] OTHER -> 3
                close == CASE syms[i] = <<"(">> -> <<")">>
                           [] syms[i] = <<"[">> -> <<"]">>
                           [] OTHER -> <<"}">>
            IN IF ends = {} THEN Raise("IndexError")
               ELSE IF syms[last] # close THEN Raise("FormatError")
               ELSE IF Cardinality(ends) < need THEN Raise("IndexError")
               ELSE Raise("AttributeError")

\* Rule.parseSyms
parseSyms(syms) ==
    IF \/ Count(syms, "(") # Count(syms, ")")
       \/ Count(syms, "[") # Count(syms, "]")
       \/ Count(syms, "{") # Count(syms, "}")
    THEN Raise("FormatError")
    ELSE ProcessBrackets(SplitWS(ReplaceChar(WrapSpecials(syms), ".", <<" ">>)))

\* one target of parseTars: (tar, count)
parseTar(tar) ==
    LET parts == SplitWS(ReplaceChar(tar, "@", <<" ">>))
    IN IF Has(tar, "@") /\ Len(parts) # 2 THEN Raise("FormatError")
       ELSE LET body  == IF Has(tar, "@") THEN parts[1] ELSE tar
                count == IF Has(tar, "@")
                         THEN SplitWS(ReplaceChar(parts[2], "|", <<" ">>)) ELSE <<>>
                syms  == parseSyms(body)
            IN IF syms.exc # "none" THEN syms
               ELSE Ok([tar |-> syms.val, count |-> count])

RECURSIVE ParseEach(_, _, _)
\* a parser's for loop over the pieces: the first exception leaves the loop
ParseEach(pieces, acc, kind) ==
    IF pieces = <<>> THEN Ok(acc)
    ELSE LET r == CASE kind = "tar" -> parseTar(Head(pieces))
                    [] OTHER ->
                        IF Has(Head(pieces), "(") \/ Has(Head(pieces), ")")
                        THEN Raise("FormatError")
                        ELSE parseSyms(Head(pieces))
         IN IF r.exc # "none" THEN r
            ELSE ParseEach(Tail(pieces), Append(acc, r.val), kind)

\* Rule.parseTars
parseTars(tars) == ParseEach(SplitList(tars), <<>>, "tar")

\* Rule.parseReps
parseReps(reps) == ParseEach(SplitList(reps), <<>>, "rep")

\* "env = [env[index-1::-1], env[index+1:]]" around the '_' of syms, else [env]
SplitAtGap(syms) ==
    IF InList(<<"_">>, syms)
    THEN Ok(<<Reversed(Slice(syms, 0, (CHOOSE k \in DOMAIN syms : syms[k] = <<"_">>) - 1)),
              From(syms, CHOOSE k \in DOMAIN syms : syms[k] = <<"_">>)>>)
    ELSE Ok(<<syms>>)

\* what follows a call that gave r: the exception goes on, a value is wrapped by F
ThenGap(r) == IF r.exc # "none" THEN r ELSE SplitAtGap(r.val)
ThenList(r) == IF r.exc # "none" THEN r ELSE Ok(<<r.val>>)
ThenConcat(r, t) ==
    IF r.exc # "none" THEN r ELSE IF t.exc # "none" THEN t ELSE Ok(r.val \o t.val)

\* one environment of parseEnvs without '~'
parseEnv(env) ==
    IF Count(env, "_") > 1 THEN Raise("FormatError") ELSE ThenGap(parseSyms(env))

RECURSIVE parseEnvList(_)
\* the for loop of parseEnvs over envs.replace(","," ").split(); the first
\* exception leaves it.  "~X" stands for the two environments X_ and _X
parseEnvList(pieces) ==
    IF pieces = <<>> THEN Ok(<<>>)
    ELSE ThenConcat(IF Has(Head(pieces), "~")
                    THEN parseEnvList(SplitList(From(Head(pieces), 1) \o <<"_", ",", "_">>
                                                \o From(Head(pieces), 1)))
                    ELSE ThenList(parseEnv(Head(pieces))),
                    parseEnvList(Tail(pieces)))

\* Rule.parseEnvs
parseEnvs(envs) == parseEnvList(SplitList(envs))

\* the names of _flags, as strings of characters
FlagLtr == <<"l", "t", "r">>
FlagRepeat == <<"r", "e", "p", "e", "a", "t">>
FlagAge == <<"a", "g", "e">>

RECURSIVE FlagLoop(_, _)
\* the for loop of parseFlag: a flag that is not a key of _flags raises before
\* the ':' branch is looked at; a key toggles, _flags[flag] = 1-_flags[flag]
FlagLoop(flags, acc) ==
    IF flags = <<>> THEN Ok(acc)
    ELSE LET flag == Head(flags)
         IN IF flag \notin {FlagLtr, FlagRepeat, FlagAge} THEN Raise("FormatError")
            ELSE FlagLoop(Tail(flags),
                    CASE flag = FlagLtr    -> [acc EXCEPT !.ltr = 1 - acc.ltr]
                      [] flag = FlagRepeat -> [acc EXCEPT !.repeat = 1 - acc.repeat]
                      [] OTHER             -> [acc EXCEPT !.age = 1 - acc.age])

\* Rule.parseFlag
parseFlag(flags) == FlagLoop(SplitList(flags), [ltr |-> 0, repeat |-> 1, age |-> 1])

\* env.reverse(); env[0].reverse(); if len(env) == 2: env[1].reverse()
ReverseEnv(env) == LET e == Reversed(env) IN [k \in DOMAIN e |-> Reversed(e[k])]

\* Rule.reverse: self.tars[i] is a tuple, which has no reverse()
RuleReverse(r) ==
    IF r.tars # <<>> THEN Raise("AttributeError")
    ELSE Ok([r EXCEPT !.reps = [k \in DOMAIN r.reps |-> Reversed(r.reps[k])],
                      !.envs = [k \in DOMAIN r.envs |-> ReverseEnv(r.envs[k])],
                      !.excs = [k \in DOMAIN r.excs |-> ReverseEnv(r.excs[k])]])

\* lines 143-148: tars, reps = rule.split(">"), reps repeated for several tars
SplitArrow(tars, reps) ==
    IF tars = <<>> /\ reps = <<>> THEN Raise("FormatError")
    ELSE IF Has(tars, ",") /\ ~Has(reps, ",")
    THEN Ok(<<tars, Join([k \in 1..(Count(tars, ",") + 1) |-> reps], <<",">>)>>)
    ELSE Ok(<<tars, reps>>)

\* lines 131-148 of Rule.__init__: the operator, giving <<tars, reps>>
SplitOperator(rule) ==
    IF Count(rule, "+") + Count(rule, "-") + Count(rule, ">") # 1 THEN Raise("FormatError")
    ELSE IF Has(rule, "+")
    THEN IF FindChar(rule, "+") # 0 THEN Raise("FormatError") ELSE Ok(<<<<>>, From(rule, 1)>>)
    ELSE IF Has(rule, "-")
    THEN IF FindChar(rule, "-") # 0 THEN Raise("FormatError") ELSE Ok(<<From(rule, 1), <<>>>>)
    ELSE SplitArrow(SplitOn(rule, ">")[1], SplitOn(rule, ">")[2])

\* lines 153-156: the flags parsed, the Rule built, self.reverse() under ltr
InitFlag(rule, tars, reps, envs, excs, flag) ==
    IF flag.exc # "none" THEN flag
    ELSE IF flag.val.ltr # 0
    THEN RuleReverse([rule |-> rule, tars |-> tars, reps |-> reps,
                      envs |-> envs, excs |-> excs, flag |-> flag.val])
    ELSE Ok([rule |-> rule, tars |-> tars, reps |-> reps,
             envs |-> envs, excs |-> excs, flag |-> flag.val])

\* line 152, self.excs = Rule.parseEnvs(excs), has given excs; then line 153
InitExcs(rule, flags, tars, reps, envs, excs) ==
    IF excs.exc # "none" THEN excs
    ELSE InitFlag(rule, tars, reps, envs, excs.val, parseFlag(flags))

\* line 151, self.envs = Rule.parseEnvs(envs), has given envs; then line 152
InitEnvs(rule, s, tars, reps, envs) ==
    IF envs.exc # "none" THEN envs
    ELSE InitExcs(rule, s.flags, tars, reps, envs.val, parseEnvs(s.excs))

\* line 150, self.reps = Rule.parseReps(reps), has given reps; then line 151
InitReps(rule, s, tars, reps) ==
    IF reps.exc # "none" THEN reps
    ELSE InitEnvs(rule, s, tars, reps.val, parseEnvs(s.envs))

\* line 149, self.tars = Rule.parseTars(tars), has given tars; then line 150
InitTars(rule, s, reps, tars) ==
    IF tars.exc # "none" THEN tars
    ELSE InitReps(rule, s, tars.val, parseReps(reps))

\* lines 131-148 have given op, the two sides of the operator; then line 149
InitOperator(rule, s, op) ==
    IF op.exc # "none" THEN op
    ELSE InitTars(rule, s, op.val[2], parseTars(op.val[1]))

\* lines 127-130: "rule, envs = rule.split("/")", else envs = "_"
InitSplitEnvs(rule, flags, excs, s3) ==
    IF Len(s3) # 2 THEN Raise("ValueError")
    ELSE InitOperator(rule, [flags |-> flags, excs |-> excs, envs |-> s3[2]],
                      SplitOperator(s3[1]))

\* lines 123-126: "rule, excs = rule.split("!")", else excs = ""
InitSplitExcs(rule, flags, s2) ==
    IF Len(s2) # 2 THEN Raise("ValueError")
    ELSE InitSplitEnvs(rule, flags, s2[2],
                       IF Has(s2[1], "/") THEN SplitOn(s2[1], "/") ELSE <<s2[1], <<"_">>>>)

\* lines 119-122: "rule, flags = rule.split()", else flags = ""
InitSplitFlags(rule, s1) ==
    IF Len(s1) # 2 THEN Raise("ValueError")
    ELSE InitSplitExcs(rule, s1[2],
                       IF Has(s1[1], "!") THEN SplitOn(s1[1], "!") ELSE <<s1[1], <<>>>>)

\* Rule.__init__(rule): Ok(the Rule) or the exception it raises
RuleInit(rule) ==
    InitSplitFlags(rule, IF Has(rule, " ") THEN SplitWS(rule) ELSE <<rule, <<>>>>)

(***************************************************************************)
(* sce.py: Word.                                                           *)
(***************************************************************************)

\* Word.__init__(lex) for a str: the phones.  Graphs is empty, so that
\* all(g.find(test) for g in Graphs) holds and test[:i] in Graphs does not
sceWordInit(lex) ==
    ScanChars(<<"#">> \o ReplaceChar(lex, " ", <<"#">>) \o <<"#", Sep>>,
              <<>>, <<>>, Sep, Graphs)

\* Word.__init__(lex) for a list: del lex[i] wherever lex[i] == lex[i-1] == "#"
sceWordFromList(lex) ==
    LET keep == {i \in DOMAIN lex : ~(i > 1 /\ lex[i] = <<"#">> /\ lex[i-1] = <<"#">>)}
        nth(n) == CHOOSE i \in keep : Cardinality({j \in keep : j < i}) = n - 1
    IN [n \in 1..Cardinality(keep) |-> lex[nth(n)]]

\* Word.__str__ with the module's Graphs and Sep
sceWordStr(phones) == WordStr(phones, Sep, SelectSeq(Graphs, LAMBDA g : Len(g) > 1))

\* self[start:] (Word.__getitem__ of a slice): a new Word of the sliced list
WordFrom(self, start) ==
    sceWordFromList(From(self, IF start < 0 THEN Max(Len(self) + start, 0) ELSE start))

RECURSIVE find(_, _)
RECURSIVE FindLoop(_, _, _, _)
\* the for loop of Word.find at the word's start: 0 (the else of the for),
\* -1 (ran out of word) or -2 (break)
FindLoop(self, sub, j, i) ==
    IF j > Len(sub) THEN 0
    ELSE LET sym == sub[j]
         IN IF i >= Len(self) THEN -1
            ELSE IF sym[1] = "("
            THEN FindLoop(self, sub, j + 1,
                          (IF self[i + 1] # Slice(sym, 1, Len(sym) - 1) THEN i - 1 ELSE i) + 1)
            ELSE IF sym = <<"*">>
            THEN IF find(WordFrom(self, i), From(sub, j)) = -1 THEN -2 ELSE 0
            ELSE IF self[i + 1] # sym THEN -2
            ELSE FindLoop(self, sub, j + 1, i + 1)

\* Word.find(sub) with start and end None
find(self, sub) ==
    LET r == FindLoop(self, sub, 1, 0)
    IN IF r # -2 THEN r
       ELSE LET pos == find(WordFrom(self, 1), sub)
            IN IF pos = -1 THEN -1 ELSE pos + 1

\* Word.find(sub, start): self[start:end].find(sub)
findFrom(self, sub, start) == find(WordFrom(self, start), sub)

\* Word.matchEnv read with len the builtin (what lines 413-421 compute once the
\* parameter no longer hides it)
matchEnvBuiltinLen(self, pos, len, env) ==
    IF Len(env) = 1 THEN Ok(find(self, env[1]) # -1)
    ELSE IF Len(env) = 2
    THEN LET matchLeft  == IF pos # 0 THEN findFrom(sceWordFromList(Reversed(self)), env[1], -pos)
                           ELSE IF env[1] # <<>> THEN -1 ELSE 0
             matchRight == findFrom(self, env[2], pos + len)
         IN Ok(matchLeft = 0 /\ matchRight = 0)
    ELSE Ok(FALSE)

\* an environment check that succeeds whatever the environment
matchEnvAlways(self, pos, len, env) == Ok(TRUE)

\* Word.matchEnv(pos, len, env): the parameter len hides the builtin, so the
\* first statement, len(env), calls an int
matchEnv(self, pos, len, env) == Raise("TypeError")

RECURSIVE AnyEnv(_, _, _, _)
\* "for env in envs: if self.matchEnv(match, len(tar), env): ... break"
AnyEnv(self, pos, len, envs) ==
    IF envs = <<>> THEN Ok(FALSE)
    ELSE LET r == matchEnv(self, pos, len, Head(envs))
         IN IF r.exc # "none" THEN r
            ELSE IF r.val THEN Ok(TRUE)
            ELSE AnyEnv(self, pos, len, Tail(envs))

RECURSIVE MatchLoop(_, _, _, _)
\* the while loop of matchTar.  Once index >= len(self) the slice self[index:]
\* is empty for good, so a match found there is found again for ever and the
\* loop does not end: "diverges"
MatchLoop(self, tar, index, matches) ==
    LET match == findFrom(self, tar, index)
    IN IF match = -1 THEN Ok(matches)
       ELSE IF index >= Len(self) THEN Raise("diverges")
       ELSE MatchLoop(self, tar, index + match + 1, Append(matches, index + match))

\* Word.replace: self[start:start+run] = rep
replace(self, start, run, rep) == Slice(self, 0, start) \o rep \o From(self, start + run)

RECURSIVE GateAndReplace(_, _, _, _, _)
\* the for loop of matchTar over the selected matches, each yield followed by
\* the caller's self.replace(match, _len, _rep) before the generator resumes
GateAndReplace(self, selected, run, rep, rule) ==
    IF selected = <<>> THEN Ok(self)
    ELSE LET match == Head(selected)
             exc   == AnyEnv(self, match, run, rule.excs)
             env   == AnyEnv(self, match, run, rule.envs)
         IN IF exc.exc # "none" THEN [exc |-> exc.exc, val |-> self]
            ELSE IF exc.val THEN GateAndReplace(self, Tail(selected), run, rep, rule)
            ELSE IF env.exc # "none" THEN [exc |-> env.exc, val |-> self]
            ELSE IF env.val
            THEN GateAndReplace(replace(self, match, run, rep), Tail(selected), run, rep, rule)
            ELSE GateAndReplace(self, Tail(selected), run, rep, rule)

\* "sorted([matches[c] for c in count], reverse=True)", count being
\* range(len(matches)) when the target has no '@': the strings of a count cannot
\* index the list matches; matches is in increasing order
sortedMatches(count, matches) ==
    IF matches.exc # "none" THEN matches
    ELSE IF count # <<>> THEN Raise("TypeError")
    ELSE Ok(Reversed(matches.val))

\* the positions the for loop of matchTar goes through for tar on self
Candidates(self, tar) == sortedMatches(tar.count, MatchLoop(self, tar.tar, 0, <<>>))

\* matchTar once the candidates are sorted
SelectAndReplace(self, tar, rep, rule, sorted) ==
    IF sorted.exc # "none" THEN [exc |-> sorted.exc, val |-> self]
    ELSE GateAndReplace(self, sorted.val, Len(tar.tar), rep, rule)

\* Word.matchTar(tar, rule) consumed by "for match in matches: self.replace(...)":
\* the strings of count cannot index the list matches
matchTar(self, tar, rep, rule) ==
    SelectAndReplace(self, tar, rep, rule, Candidates(self, tar))

RECURSIVE Deletion(_, _, _)
RECURSIVE DeletionNext(_, _, _)
\* "for tar in tars:" of the deletion branch
Deletion(self, tars, rule) ==
    IF tars = <<>> THEN Ok(self)
    ELSE DeletionNext(matchTar(self, Head(tars), <<>>, rule), Tail(tars), rule)
DeletionNext(r, tars, rule) ==
    IF r.exc # "none" THEN r ELSE Deletion(r.val, tars, rule)

RECURSIVE Substitution(_, _, _, _)
RECURSIVE SubstitutionNext(_, _, _, _)
\* "for tar, rep in zip(tars, reps):" of the substitution branch; rep[0] and
\* tar[0] are never Cat instances, parseSyms returns strings only
Substitution(self, tars, reps, rule) ==
    IF tars = <<>> \/ reps = <<>> THEN Ok(self)
    ELSE IF Head(reps) = <<>> THEN [exc |-> "IndexError", val |-> self]
    ELSE SubstitutionNext(matchTar(self, Head(tars),
                                   IF Head(reps) = <<<<"?">>>> THEN Reversed(Head(tars).tar)
                                   ELSE Head(reps), rule),
                          Tail(tars), Tail(reps), rule)
SubstitutionNext(r, tars, reps, rule) ==
    IF r.exc # "none" THEN r ELSE Substitution(r.val, tars, reps, rule)

\* "phones = self.phones" binds the list itself: what phones reads at line 492
\* is the list as it is then
phonesAtCompare(atStart, now) == now

\* lines 458-491: the three branches of applyRule
RuleBranch(self, rule) ==
    IF rule.tars = <<>>
    THEN IF rule.reps = <<>> THEN [exc |-> "IndexError", val |-> self]
         ELSE matchTar(self, [tar |-> <<>>, count |-> <<>>], rule.reps[1], rule)
    ELSE IF rule.reps = <<>> THEN Deletion(self, rule.tars, rule)
    ELSE Substitution(self, rule.tars, rule.reps, rule)

\* lines 492-493: "if self.phones == phones: raise WordUnchanged"
CompareUnchanged(atStart, now) ==
    IF now = phonesAtCompare(atStart, now) THEN [exc |-> "WordUnchanged", val |-> now]
    ELSE [exc |-> "none", val |-> now]

\* lines 490-493 after the branch gave r: self.reverse() back under ltr
AfterBranch(self, rule, r) ==
    IF r.exc # "none" THEN r
    ELSE CompareUnchanged(self, IF rule.flag.ltr # 0 THEN Reversed(r.val) ELSE r.val)

\* Word.applyRule(rule): [exc, val], val the word's phones when the call is left
applyRule(self, rule) ==
    AfterBranch(self, rule,
                RuleBranch(IF rule.flag.ltr # 0 THEN Reversed(self) ELSE self, rule))

(***************************************************************************)
(* sce.py: run, the category lines.  Cats maps a name to a Cat, a record   *)
(* [vals, ftrs]; ftrs maps a feature name to a list of values.             *)
(***************************************************************************)

EmptyMap == [k \in {} |-> <<>>]

\* the dict d with d[k] = v set / with key k deleted
MapSet(d, k, v) == [x \in (DOMAIN d) \cup {k} |-> IF x = k THEN v ELSE d[x]]
MapDel(d, k) == [x \in (DOMAIN d) \ {k} |-> d[x]]

RECURSIVE CatVals(_, _, _)
\* the for loop of Cat.__init__ over vals: "[name]" includes Cats[name].vals
CatVals(vals, acc, cats) ==
    IF vals = <<>> THEN Ok(acc)
    ELSE LET val == Head(vals)
         IN IF Has(val, "[")
            THEN LET name == Slice(val, 1, Len(val) - 1)
                 IN IF name \notin DOMAIN cats THEN Raise("KeyError")
                    ELSE CatVals(Tail(vals), acc \o cats[name].vals, cats)
            ELSE CatVals(Tail(vals), Append(acc, val), cats)

\* Cat(vals) for the str vals of a category line (ftrs=None)
CatFromStr(vals, cats) ==
    LET v == CatVals(SplitList(vals), <<>>, cats)
    IN IF v.exc # "none" THEN v ELSE Ok([vals |-> v.val, ftrs |-> EmptyMap])

\* Cat(vals, ftrs) as called by __add__ and __sub__: "for ftr,vals in ftrs.items()"
\* evaluates "val in self" for the first value of a non-empty feature, before
\* self.vals is set; an empty feature is deleted as redundant
CatWithFtrs(vals, ftrs) ==
    IF \E f \in DOMAIN ftrs : ftrs[f] # <<>> THEN Raise("AttributeError")
    ELSE Ok([vals |-> vals, ftrs |-> EmptyMap])

\* Cats[name] + cat, Cats[name] - cat
CatPlus(self, cat) == CatWithFtrs(self.vals \o cat.vals, self.ftrs)
CatMinus(self, cat) == CatWithFtrs(SelectSeq(self.vals, LAMBDA v : ~InList(v, cat.vals)), self.ftrs)

\* flow.split(op) for the operator op of a line with exactly one '='
SplitAtOp(flow, op) ==
    LET at == {i \in 0..(Len(flow) - Len(op)) : SubSeq(flow, i + 1, i + Len(op)) = op}
    IN IF at = {} THEN <<flow>>
       ELSE LET i == CHOOSE k \in at : TRUE
            IN <<Slice(flow, 0, i), From(flow, i + Len(op))>>

\* exec("Cats[name][feature] {op} Cat(vals)"): Cat.__setitem__ / __getitem__ of a feature
ExecFeature(cats, name, feature, op, cat) ==
    IF name \notin DOMAIN cats THEN Raise("KeyError")
    ELSE LET self == cats[name]
             inSelf(l) == SelectSeq(l, LAMBDA v : InList(v, self.vals))
             put(l) == Ok(MapSet(cats, name, [self EXCEPT !.ftrs = MapSet(self.ftrs, feature, inSelf(l))]))
         IN IF op = <<"=">> THEN put(cat.vals)
            ELSE IF feature \notin DOMAIN self.ftrs THEN Raise("KeyError")
            ELSE IF op = <<"+", "=">> THEN put(self.ftrs[feature] \o cat.vals)
            ELSE Raise("TypeError")

\* exec("Cats[name] {op} Cat(vals)")
ExecCat(cats, name, op, cat) ==
    IF op = <<"=">> THEN Ok(MapSet(cats, name, cat))
    ELSE LET r == IF op = <<"+", "=">> THEN CatPlus(cats[name], cat) ELSE CatMinus(cats[name], cat)
         IN IF r.exc # "none" THEN r ELSE Ok(MapSet(cats, name, r.val))

\* "for cat in Cats.keys(): if not Cats[cat]: del Cats[cat]": the del changes the
\* dict's size under its own iterator, whose next step raises RuntimeError
DiscardBlank(cats) ==
    LET blank == {c \in DOMAIN cats : cats[c].vals = <<>>}
    IN IF blank = {} THEN [exc |-> "none", cats |-> cats]
       ELSE [exc |-> "RuntimeError", cats |-> MapDel(cats, CHOOSE c \in blank : TRUE)]

\* the body of the try of a category line: [exc, cats], cats the store it leaves
CatLineBody(cats, flow) ==
    IF Count(flow, "=") # 1 THEN [exc |-> "FormatError", cats |-> cats]
    ELSE LET cop   == FindChar(flow, "=")
             prev  == IF cop = 0 THEN flow[Len(flow)] ELSE flow[cop]
             op    == IF prev \in {"+", "-"} THEN <<prev, "=">> ELSE <<"=">>
             parts == SplitAtOp(flow, op)
             lbr   == FindChar(parts[1], "[")
             rbr   == FindChar(parts[1], "]")
             plain == lbr = -1 /\ rbr = -1
             split == SplitOn(Strip(parts[1], {"]"}), "[")
             name  == IF plain THEN parts[1] ELSE split[1]
             cat   == CatFromStr(parts[2], cats)
             done  == IF plain THEN ExecCat(cats, name, op, cat.val)
                      ELSE ExecFeature(cats, name, split[2], op, cat.val)
         IN IF Len(parts) # 2 THEN [exc |-> "ValueError", cats |-> cats]
            ELSE IF ~plain /\ ~(lbr < rbr - 1 /\ Count(parts[1], "[") = 1 /\ Count(parts[1], "]") = 1)
            THEN [exc |-> "FormatError", cats |-> cats]
            ELSE IF op # <<"=">> /\ name \notin DOMAIN cats
            THEN [exc |-> "FormatError", cats |-> cats]
            ELSE IF cat.exc # "none" THEN [exc |-> cat.exc, cats |-> cats]
            ELSE IF done.exc # "none" THEN [exc |-> done.exc, cats |-> cats]
            ELSE DiscardBlank(done.val)

(***************************************************************************)
(* sce.py: run.  The inputs: the lexicon iLex and the lines of strm, which *)
(* the driver reads one at a time.                                         *)
(***************************************************************************)

\* iLex: "a", "b a"
iLex == << <<"a">>, <<"b", " ", "a">> >>

\* the lines strm may hold
LineEmpty      == <<>>
LineSubst      == <<"a", ">", "b">>
LineNoMatch    == <<"c", ">", "d">>
LineAgeToggle  == <<"d", ">", "c", " ", "a", "g", "e">>
LineAgeValue   == <<"e", ">", "f", " ", "a", "g", "e", ":", "2">>
LineRepValue   == <<"f", ">", "e", " ", "r", "e", "p", "e", "a", "t", ":", "2">>
LineRepToggle  == <<"g", ">", "h", " ", "r", "e", "p", "e", "a", "t">>
LineBadFlags   == <<"c", ">", "d", " ", "x", " ", "y">>
LineTwoOps     == <<"c", ">", "d", ">", "e">>
LineEpenthesis == <<"+", "c">>
LineDelEdge    == <<"-", "#">>
LineNoEnv      == <<"a", ">", "b", "/">>
LineOptional   == <<"(", "c", ")", ">", "d">>
LineLtr        == <<"c", ">", "d", " ", "l", "t", "r">>
LineCatDef     == <<"V", "=", "a", ",", "b">>
LineCatCutAll  == <<"V", "-", "=", "a", ",", "b">>
LineCatTwoEq   == <<"V", "=", "a", "=", "b">>
LineCatUnknown == <<"W", "=", "[", "X", "]">>
LineCatFeature == <<"V", "[", "f", "]", "=", "a">>
LineCatGrow    == <<"V", "+", "=", "c">>

LineSet ==
    {LineEmpty, LineSubst, LineNoMatch, LineAgeToggle, LineAgeValue, LineRepValue,
     LineRepToggle, LineBadFlags, LineTwoOps, LineEpenthesis, LineDelEdge, LineNoEnv,
     LineOptional, LineLtr, LineCatDef, LineCatCutAll, LineCatTwoEq, LineCatUnknown,
     LineCatFeature, LineCatGrow}

VARIABLES
    strm,       \* the lines read so far
    Words,      \* Words: the phones of each Word
    Rules,      \* Rules: the active rules, each with the number of its line
    Cats,       \* the global Cats
    pc,         \* "line", "pass", "age", "done", "crashed", "hung"
    wi,         \* position of "for word in Words" (1-based)
    ri,         \* position of "for rule in reversed(Rules)" (1-based, in iteration order)
    rk,         \* i of "for i in range(rule.flag["repeat"])"
    err,        \* the exception that left run, "none" if none did
    printed,    \* the numbers of the lines an "Error parsing" message was printed for
    out,        \* the list run returns
    passes,     \* history: per pass, its line, the rules active in it, its applyRule calls
    atLine,     \* history: Words, Rules, Cats as they were when the last line was read
    tpc, lexeme, graphs, phones, text, phones2,      \* the tokenizer round trip
    apc, aorig, aword, arule, aexc, abefore, napp,   \* rules applied to one word
    fpc, fword, fsub, fstart, fend, fsce, fcore,     \* find called on one word
    kword, krep0, krep, kenv0, kenv, kres, kn        \* core.py calls sharing a rule's lists

drv == <<strm, Words, Rules, Cats, pc, wi, ri, rk, err, printed, out, passes, atLine>>
tok == <<tpc, lexeme, graphs, phones, text, phones2>>
app == <<apc, aorig, aword, arule, aexc, abefore, napp>>
fnd == <<fpc, fword, fsub, fstart, fend, fsce, fcore>>
shr == <<kword, krep0, krep, kenv0, kenv, kres, kn>>
vars == <<drv, tok, app, fnd, shr>>

\* the variables of a part of the program that does not run
DrvIdle ==
    /\ strm = <<>> /\ Words = <<>> /\ Rules = <<>> /\ Cats = EmptyMap /\ pc = "idle"
    /\ wi = 0 /\ ri = 0 /\ rk = 0 /\ err = "none" /\ printed = <<>> /\ out = <<>>
    /\ passes = <<>> /\ atLine = <<>>
TokIdle ==
    /\ tpc = "idle" /\ lexeme = <<>> /\ graphs = <<>> /\ phones = <<>>
    /\ text = <<>> /\ phones2 = <<>>
AppIdle ==
    /\ apc = "idle" /\ aorig = <<>> /\ aword = <<>> /\ arule = <<>> /\ aexc = "none"
    /\ abefore = <<>> /\ napp = 0
FndIdle ==
    /\ fpc = "idle" /\ fword = <<>> /\ fsub = <<>> /\ fstart = 0 /\ fend = 0
    /\ fsce = 0 /\ fcore = 0
ShrIdle ==
    /\ kword = <<>> /\ krep0 = <<>> /\ krep = <<>> /\ kenv0 = <<>> /\ kenv = <<>>
    /\ kres = "none" /\ kn = 0

\* run, lines 498-500
Init ==
    /\ strm = <<>>
    /\ Words = [k \in DOMAIN iLex |-> sceWordInit(iLex[k])]
    /\ Rules = <<>>
    /\ Cats = EmptyMap
    /\ pc = "line"
    /\ wi = 0 /\ ri = 0 /\ rk = 0
    /\ err = "none" /\ printed = <<>> /\ out = <<>>
    /\ passes = <<>> /\ atLine = <<>>
    /\ TokIdle /\ AppIdle /\ FndIdle /\ ShrIdle

\* reversed(Rules): the indices of Rules in the order the pass visits them
ApplyOrderForward(n) == [k \in 1..n |-> k]
ApplyOrder(n) == [k \in 1..n |-> n + 1 - k]

\* the rule at position r of "for rule in reversed(Rules)"
RuleAt(rules, r) == rules[ApplyOrder(Len(rules))[r]]

RECURSIVE NextCall(_, _, _, _)
\* the next applyRule call of the pass at or after word w, rule position r:
\* a rule whose range(repeat) is empty is passed over; wi > nwords: the pass is over
NextCall(rules, nwords, w, r) ==
    IF w > nwords THEN [wi |-> w, ri |-> 1]
    ELSE IF r > Len(rules) THEN NextCall(rules, nwords, w + 1, 1)
    ELSE IF RuleAt(rules, r).flag.repeat > 0 THEN [wi |-> w, ri |-> r]
    ELSE NextCall(rules, nwords, w, r + 1)

\* lines 547-550: every age one less, the rules whose age is then 0 deleted
AgedRules(rules) ==
    SelectSeq([k \in DOMAIN rules |-> [rules[k] EXCEPT !.flag.age = @ - 1]],
              LAMBDA r : r.flag.age # 0)

\* what the line being read finds
Snapshot == [Words |-> Words, Rules |-> Rules, Cats |-> Cats]

\* lines 502-503: an empty line
EmptyLine(flow) ==
    /\ pc = "line" /\ Len(strm) < MaxLines
    /\ flow = <<>>
    /\ strm' = Append(strm, flow)
    /\ atLine' = Snapshot
    /\ UNCHANGED <<Words, Rules, Cats, pc, wi, ri, rk, err, printed, out, passes>>
    /\ UNCHANGED <<tok, app, fnd, shr>>

\* lines 504-530: a category line
CatLine(flow) ==
    /\ pc = "line" /\ Len(strm) < MaxLines
    /\ flow # <<>> /\ Has(flow, "=")
    /\ strm' = Append(strm, flow)
    /\ atLine' = Snapshot
    /\ \E r \in {CatLineBody(Cats, flow)} :
          /\ Cats' = r.cats
          /\ printed' = IF r.exc = "FormatError" THEN Append(printed, Len(strm) + 1) ELSE printed
          /\ pc' = IF r.exc \in {"none", "FormatError"} THEN "line" ELSE "crashed"
          /\ err' = IF r.exc \in {"none", "FormatError"} THEN "none" ELSE r.exc
    /\ UNCHANGED <<Words, Rules, wi, ri, rk, out, passes>>
    /\ UNCHANGED <<tok, app, fnd, shr>>

\* lines 537-539: Rules.append(rule), then the pass over the words begins
StartPass(rules, first) ==
    /\ Rules' = rules
    /\ wi' = first.wi /\ ri' = first.ri /\ rk' = 0
    /\ pc' = IF first.wi > Len(Words) THEN "age" ELSE "pass"
    /\ passes' = Append(passes,
                        [line   |-> Len(strm) + 1,
                         active |-> [k \in DOMAIN rules |->
                                        [line |-> rules[k].line,
                                         repeat |-> rules[k].flag.repeat]],
                         calls  |-> <<>>])
    /\ UNCHANGED <<err, printed>>

\* lines 531-538: a rule line, parsed and appended, or reported and skipped
RuleLine(flow) ==
    /\ pc = "line" /\ Len(strm) < MaxLines
    /\ flow # <<>> /\ ~Has(flow, "=")
    /\ strm' = Append(strm, flow)
    /\ atLine' = Snapshot
    /\ \E r \in {RuleInit(flow)} :
          IF r.exc = "none"
          THEN \E rules \in {Append(Rules, r.val @@ [line |-> Len(strm) + 1])} :
                  StartPass(rules, NextCall(rules, Len(Words), 1, 1))
          ELSE /\ printed' = IF r.exc = "FormatError" THEN Append(printed, Len(strm) + 1) ELSE printed
               /\ pc' = IF r.exc = "FormatError" THEN "line" ELSE "crashed"
               /\ err' = IF r.exc = "FormatError" THEN "none" ELSE r.exc
               /\ UNCHANGED <<Rules, wi, ri, rk, passes>>
    /\ UNCHANGED <<Words, Cats, out>>
    /\ UNCHANGED <<tok, app, fnd, shr>>

\* lines 541-546 after an applyRule that returned or raised WordUnchanged:
\* "for i in range(repeat)" goes on, or the next rule, word, or the aging
Proceed(more, next) ==
    /\ wi' = IF more THEN wi ELSE next.wi
    /\ ri' = IF more THEN ri ELSE next.ri
    /\ rk' = IF more THEN rk + 1 ELSE 0
    /\ pc' = IF ~more /\ next.wi > Len(Words) THEN "age" ELSE "pass"
    /\ UNCHANGED err

\* lines 539-546: one word.applyRule(rule) of the pass and what the loops do next
ApplyStep ==
    /\ pc = "pass"
    /\ \E rule \in {RuleAt(Rules, ri)} : \E r \in {applyRule(Words[wi], rule)} :
          /\ passes' = [passes EXCEPT ![Len(passes)].calls =
                            Append(@, [word |-> wi, line |-> rule.line, exc |-> r.exc])]
          /\ IF r.exc \in {"none", "WordUnchanged"}
             THEN /\ Words' = [Words EXCEPT ![wi] = r.val]
                  /\ Proceed(r.exc = "none" /\ rk + 1 < rule.flag.repeat,
                             NextCall(Rules, Len(Words), wi, ri + 1))
             ELSE IF r.exc = "diverges"
             THEN /\ pc' = "hung"
                  /\ UNCHANGED <<Words, wi, ri, rk, err>>
             ELSE /\ pc' = "crashed"
                  /\ err' = r.exc
                  /\ Words' = [Words EXCEPT ![wi] = r.val]
                  /\ UNCHANGED <<wi, ri, rk>>
    /\ UNCHANGED <<strm, Rules, Cats, printed, out, atLine>>
    /\ UNCHANGED <<tok, app, fnd, shr>>

\* lines 547-550: the end of the pass
AgeRules ==
    /\ pc = "age"
    /\ Rules' = AgedRules(Rules)
    /\ pc' = "line"
    /\ UNCHANGED <<strm, Words, Cats, wi, ri, rk, err, printed, out, passes, atLine>>
    /\ UNCHANGED <<tok, app, fnd, shr>>

\* line 551: strm is exhausted
Return ==
    /\ pc = "line"
    /\ out' = [k \in DOMAIN Words |-> sceWordStr(Words[k])]
    /\ pc' = "done"
    /\ UNCHANGED <<strm, Words, Rules, Cats, wi, ri, rk, err, printed, passes, atLine>>
    /\ UNCHANGED <<tok, app, fnd, shr>>

Next ==
    \/ \E flow \in LineSet : EmptyLine(flow)
    \/ \E flow \in LineSet : CatLine(flow)
    \/ \E flow \in LineSet : RuleLine(flow)
    \/ ApplyStep
    \/ AgeRules
    \/ Return

Spec == Init /\ [][Next]_vars

(***************************************************************************)
(* core.py: a text tokenized by Word(lexeme, graphs=graphs), written back  *)
(* by str(word) and tokenized again.                                       *)
(***************************************************************************)

RECURSIVE TextsUpTo(_, _)
\* the strings over alphabet of length n or less
TextsUpTo(alphabet, n) ==
    IF n = 0 THEN {<<>>}
    ELSE LET shorter == TextsUpTo(alphabet, n - 1)
         IN shorter \cup {Append(t, c) : t \in shorter, c \in alphabet}

\* the characters of the texts: letters, whitespace, the boundary and the separator
TokAlphabet == {"a", "b", "c", " ", "#", "'"}

\* the values of graphs: graphs[0] is the separator, the rest the polygraphs
GraphsSet ==
    { << <<"'">> >>,
      << <<"'">>, <<"a", "b">> >>,
      << <<"'">>, <<"a", "b">>, <<"b", "c">> >>,
      << <<"'">>, <<"b", "c">>, <<"a", "b">> >> }

TokInit ==
    /\ tpc = "text"
    /\ lexeme \in TextsUpTo(TokAlphabet, MaxText)
    /\ graphs \in GraphsSet
    /\ phones = <<>> /\ text = <<>> /\ phones2 = <<>>
    /\ DrvIdle /\ AppIdle /\ FndIdle /\ ShrIdle

\* Word(lexeme, graphs=graphs)
Tokenize ==
    /\ tpc = "text"
    /\ phones' = WordInit(lexeme, graphs)
    /\ tpc' = "word"
    /\ UNCHANGED <<lexeme, graphs, text, phones2>>
    /\ UNCHANGED <<drv, app, fnd, shr>>

\* str(word)
Serialize ==
    /\ tpc = "word"
    /\ text' = WordStr(phones, graphs[1][1], WordPolygraphs(graphs))
    /\ tpc' = "str"
    /\ UNCHANGED <<lexeme, graphs, phones, phones2>>
    /\ UNCHANGED <<drv, app, fnd, shr>>

\* Word(str(word), graphs=graphs)
Retokenize ==
    /\ tpc = "str"
    /\ phones2' = WordInit(text, graphs)
    /\ tpc' = "again"
    /\ UNCHANGED <<lexeme, graphs, phones, text>>
    /\ UNCHANGED <<drv, app, fnd, shr>>

TokNext == Tokenize \/ Serialize \/ Retokenize

SpecTok == TokInit /\ [][TokNext]_vars

(***************************************************************************)
(* sce.py: Word.applyRule called on one word, with one rule after another. *)
(***************************************************************************)

LineDelete   == <<"-", "a">>
LineBefore   == <<"a", ">", "b", "/", "_", "b">>
LineExcept   == <<"b", ">", "c", "!", "#", "_">>
LineSwap     == <<"a", ".", "b", ">", "?">>
LinePair     == <<"a", ".", "b", ">", "c">>
LineAppend   == <<"+", "b", "/", "_", "#">>
LineCatMap   == <<"[", "a", "|", "b", "]", ">", "[", "b", "|", "a", "]">>
LineLtrSubst == <<"a", ">", "b", " ", "l", "t", "r">>
LineSelect   == <<"a", "@", "1", "|", "1", ">", "b">>
LineOverlap  == <<"a", ".", "a", ">", "b">>

\* the rule sources given to Rule
RuleSources ==
    {r \in (LineSet \cup {LineDelete, LineBefore, LineExcept, LineSwap, LinePair,
                          LineAppend, LineCatMap, LineLtrSubst, LineSelect,
                          LineOverlap}) :
        r # <<>> /\ ~Has(r, "=")}

\* the rule sources applied: those Rule.__init__ accepts
RuleSet == {r \in RuleSources : RuleInit(r).exc = "none"}

AppInit ==
    /\ apc = "ready"
    /\ aorig \in {sceWordInit(t) : t \in TextsUpTo({"a", "b", " "}, MaxWord)}
    /\ aword = aorig
    /\ arule = <<>> /\ aexc = "none" /\ abefore = <<>> /\ napp = 0
    /\ DrvIdle /\ TokIdle /\ FndIdle /\ ShrIdle

\* word.applyRule(Rule(flow))
ApplyRule(flow) ==
    /\ apc = "ready" /\ napp < MaxApply
    /\ \E r \in {applyRule(aword, RuleInit(flow).val)} :
          /\ aword' = r.val
          /\ aexc' = r.exc
          /\ apc' = IF r.exc = "diverges" THEN "hung" ELSE "ready"
    /\ abefore' = aword
    /\ arule' = flow
    /\ napp' = napp + 1
    /\ UNCHANGED aorig
    /\ UNCHANGED <<drv, tok, fnd, shr>>

\* word.applyRule(Rule(flow)) where Rule(flow) raises: applyRule is not called
RuleRejected(flow) ==
    /\ apc = "ready" /\ napp < MaxApply
    /\ RuleInit(flow).exc # "none"
    /\ aexc' = RuleInit(flow).exc
    /\ abefore' = aword
    /\ arule' = flow
    /\ napp' = napp + 1
    /\ UNCHANGED <<apc, aorig, aword>>
    /\ UNCHANGED <<drv, tok, fnd, shr>>

AppNext ==
    \/ \E flow \in RuleSet : ApplyRule(flow)
    \/ \E flow \in RuleSources : RuleRejected(flow)

SpecApply == AppInit /\ [][AppNext]_vars

(***************************************************************************)
(* Word.find of sce.py and of core.py called with a range, on one word.    *)
(* A pattern is written as sce.py has it, a list of strings: a literal, "*" *)
(* or "(x)"; for core.py a string "(x)" is the tuple ("x",).               *)
(***************************************************************************)

\* the longest pattern
MaxSub == 3

\* a find that looks at the whole word whatever the range
findWhole(self, sub, start, end) == find(self, sub)

\* sce.py Word.find(sub, start, end), lines 383-384: self[start:end].find(sub)
findRange(self, sub, start, end) == find(sceWordFromList(Slice(self, start, end)), sub)

\* an element of a core.py pattern: a str or a tuple of elements (a Cat has
\* kind "Cat" and its values as items)
coreStr(str)     == [kind |-> "str", str |-> str, items |-> <<>>]
coreTuple(items) == [kind |-> "tuple", str |-> <<>>, items |-> items]

\* the pattern of core.py for a pattern written as sce.py has it
coreSyms(sub) ==
    [k \in DOMAIN sub |->
        IF sub[k][1] = "(" THEN coreTuple(<<coreStr(Slice(sub[k], 1, Len(sub[k]) - 1))>>)
        ELSE coreStr(sub[k])]

RECURSIVE coreFind(_, _, _, _)
RECURSIVE coreFindSyms(_, _, _, _, _)
RECURSIVE coreFindFrom(_, _, _, _, _)
\* core.py Word.find, "for k, sym in enumerate(sub)" (lines 213-234) from
\* element k at position j: "else" (the for ran out: return i), "stop" (return
\* -1) or "break"
coreFindSyms(self, sub, end, k, j) ==
    IF k > Len(sub) THEN "else"
    ELSE IF j >= end THEN "stop"
    ELSE IF sub[k].kind = "tuple"
    THEN IF coreFind(self, sub[k].items \o SubSeq(sub, k + 1, Len(sub)), j, end) = 0
         THEN "else"
         ELSE coreFindSyms(self, sub, end, k + 1, (j - 1) + 1)
    ELSE IF sub[k].kind = "Cat"
    THEN IF ~InList(self[j + 1], sub[k].items) THEN "break"
         ELSE coreFindSyms(self, sub, end, k + 1, j + 1)
    ELSE IF sub[k].str = <<"*">>
    THEN IF coreFind(self, SubSeq(sub, k + 1, Len(sub)), j, end) # -1 THEN "else" ELSE "break"
    ELSE IF self[j + 1] # sub[k].str THEN "break"
    ELSE coreFindSyms(self, sub, end, k + 1, j + 1)

\* what "for i in range(0, end-start)" does once the inner for gave r at i
coreFindNext(self, sub, start, end, i, r) ==
    IF r = "else" THEN i
    ELSE IF r = "stop" THEN -1
    ELSE coreFindFrom(self, sub, start, end, i + 1)

\* "for i in range(0, end-start)" from i on (lines 211-236)
coreFindFrom(self, sub, start, end, i) ==
    IF i >= end - start THEN -1
    ELSE coreFindNext(self, sub, start, end, i, coreFindSyms(self, sub, end, 1, i + start))

\* core.py Word.find(sub, start, end) with return_match False and ints for
\* start and end, 0 <= start, 0 <= end
coreFind(self, sub, start, end) == coreFindFrom(self, sub, start, end, 0)

\* the elements of the patterns given to find
SubAlphabet == {<<"a">>, <<"#">>, <<"*">>, <<"(", "a", ")">>}

\* the words find is called on: Word(text) of sce.py, which for these texts has
\* the phones of core.py's Word(text)
FindWords == {sceWordInit(t) : t \in TextsUpTo({"a", "b"}, MaxWord)}

FindInit ==
    /\ fpc = "ready"
    /\ fword \in FindWords
    /\ fsub \in TextsUpTo(SubAlphabet, MaxSub)
    /\ fstart \in 0..Len(fword)
    /\ fend \in fstart..Len(fword)
    /\ fsce = 0 /\ fcore = 0
    /\ DrvIdle /\ TokIdle /\ AppIdle /\ ShrIdle

\* sce.Word.find(sub, start, end)
FindSce ==
    /\ fpc = "ready"
    /\ fsce' = findRange(fword, fsub, fstart, fend)
    /\ fpc' = "sce"
    /\ UNCHANGED <<fword, fsub, fstart, fend, fcore>>
    /\ UNCHANGED <<drv, tok, app, shr>>

\* core.Word.find(sub, start, end)
FindCore ==
    /\ fpc = "sce"
    /\ fcore' = coreFind(fword, coreSyms(fsub), fstart, fend)
    /\ fpc' = "core"
    /\ UNCHANGED <<fword, fsub, fstart, fend, fsce>>
    /\ UNCHANGED <<drv, tok, app, shr>>

FindNext == FindSce \/ FindCore

SpecFind == FindInit /\ [][FindNext]_vars

(***************************************************************************)
(* core.py: Word.replace and Word.match_env called, one call after         *)
(* another, with the same replacement list and the same environment list   *)
(* of a rule.  An element of an environment is a str or a list (a pattern). *)
(***************************************************************************)

\* the longest replacement, the longest target and the most calls
MaxRep == 2
MaxTar == 2
MaxCalls == 2

\* an element of an environment that is a list: a pattern
coreList(items) == [kind |-> "list", str |-> <<>>, items |-> items]

\* l[i:i+1] = new, i 1-based
Splice(l, i, new) == SubSeq(l, 1, i - 1) \o new \o SubSeq(l, i + 1, Len(l))

RECURSIVE coreExpandRep(_, _, _)
\* Word.replace, lines 295-299: "for i in reversed(range(len(rep)))" from i
\* (1-based) down, writing into rep itself; rep when the loop is left
coreExpandRep(rep, tar, i) ==
    IF i = 0 THEN rep
    ELSE IF rep[i] = <<"%">> THEN coreExpandRep(Splice(rep, i, tar), tar, i - 1)
    ELSE IF rep[i] = <<"<">> THEN coreExpandRep(Splice(rep, i, Reversed(tar)), tar, i - 1)
    ELSE coreExpandRep(rep, tar, i - 1)

\* line 300, self[start:start+len(tar)] = rep, with rep as the loop left it
coreAssignRun(self, start, tar, rep) ==
    [phones |-> Slice(self, 0, start) \o rep \o From(self, start + Len(tar)), rep |-> rep]

\* core.py Word.replace(start, tar, rep): the word's phones and the list rep
\* after the call
coreReplace(self, start, tar, rep) ==
    coreAssignRun(self, start, tar, coreExpandRep(rep, tar, Len(rep)))

\* env[i] == ref, ref a str
IsRef(e, ref) == e.kind = "str" /\ e.str = ref

\* the elements of tar as elements of an environment
AsElements(tar) == [k \in DOMAIN tar |-> coreStr(tar[k])]

RECURSIVE coreExpandEnv(_, _, _)
RECURSIVE coreExpandEnvLt(_, _, _)
\* Word.match_env, lines 279-283: "for i in reversed(range(len(env)))" from i
\* (1-based) down, writing into env itself; the second if reads env[i] again
coreExpandEnv(env, tar, i) ==
    IF i = 0 THEN [exc |-> "none", val |-> env]
    ELSE coreExpandEnvLt(IF IsRef(env[i], <<"%">>) THEN Splice(env, i, AsElements(tar)) ELSE env,
                         tar, i)
coreExpandEnvLt(env, tar, i) ==
    IF i > Len(env) THEN [exc |-> "IndexError", val |-> env]
    ELSE coreExpandEnv(IF IsRef(env[i], <<"<">>) THEN Splice(env, i, AsElements(Reversed(tar)))
                       ELSE env,
                       tar, i - 1)

\* an element of an environment read as a pattern by find: a list is the
\* pattern, a str is gone through character by character
AsPattern(e) ==
    IF e.kind = "list" THEN e.items ELSE [c \in DOMAIN e.str |-> coreStr(<<e.str[c]>>)]

\* "env[0] in self" (Word.__contains__, lines 166-172)
coreContains(self, e) ==
    IF e.kind = "list" THEN coreFind(self, e.items, 0, Len(self)) # -1
    ELSE InList(e.str, self)

\* lines 287-290: matchLeft
coreMatchLeft(self, env, pos) ==
    IF pos # 0
    THEN coreFind(Reversed(self), AsPattern(env[1]), Len(self) - pos, Len(self))
    ELSE IF (env[1].kind = "list" /\ env[1].items # <<>>) \/ (env[1].kind = "str" /\ env[1].str # <<>>)
    THEN -1 ELSE 0

\* lines 284-292 once the loop has left env: "True", "False" or the exception
coreMatchSides(self, env, pos, run) ==
    IF Len(env) = 1 THEN (IF coreContains(self, env[1]) THEN "True" ELSE "False")
    ELSE IF Len(env) = 0 THEN "IndexError"
    ELSE IF coreMatchLeft(self, env, pos) = 0
            /\ coreFind(self, AsPattern(env[2]), pos + run, Len(self)) = 0
    THEN "True" ELSE "False"

\* what follows the loop that gave r
coreMatchAfter(self, r, pos, run) ==
    [res |-> IF r.exc # "none" THEN r.exc ELSE coreMatchSides(self, r.val, pos, run),
     env |-> r.val]

\* core.py Word.match_env(env, pos, tar): the result and the list env after the call
match_env(self, env, pos, tar) ==
    coreMatchAfter(self, coreExpandEnv(env, tar, Len(env)), pos, Len(tar))

\* the replacement lists and the environment lists of the rule
RepAlphabet == {<<"a">>, <<"%">>, <<"<">>}
EnvSet ==
    { <<coreStr(<<"%">>)>>,
      <<coreStr(<<"<">>)>>,
      <<coreList(<<coreStr(<<"%">>)>>)>>,
      <<coreList(<<coreStr(<<"#">>)>>), coreStr(<<"%">>)>>,
      <<coreList(<<>>), coreList(<<coreStr(<<"b">>)>>)>> }

\* the runs of at most MaxTar tokens of self that begin at start
RunsAt(self, start) == {Slice(self, start, start + n) : n \in 0..MaxTar}

ShareInit ==
    /\ kword \in {WordInit(t, << <<"'">> >>) : t \in TextsUpTo({"a", "b"}, MaxTar)}
    /\ krep0 \in TextsUpTo(RepAlphabet, MaxRep)
    /\ krep = krep0
    /\ kenv0 \in EnvSet
    /\ kenv = kenv0
    /\ kres = "none" /\ kn = 0
    /\ DrvIdle /\ TokIdle /\ AppIdle /\ FndIdle

\* word.replace(start, tar, rep), rep the rule's replacement list
CoreReplace(start, tar) ==
    /\ kn < MaxCalls
    /\ \E r \in {coreReplace(kword, start, tar, krep)} :
          /\ kword' = r.phones
          /\ krep' = r.rep
    /\ kres' = "none"
    /\ kn' = kn + 1
    /\ UNCHANGED <<krep0, kenv0, kenv>>
    /\ UNCHANGED <<drv, tok, app, fnd>>

\* word.match_env(env, pos, tar), env the rule's environment list
CoreMatchEnv(pos, tar) ==
    /\ kn < MaxCalls
    /\ \E r \in {match_env(kword, kenv, pos, tar)} :
          /\ kres' = r.res
          /\ kenv' = r.env
    /\ kn' = kn + 1
    /\ UNCHANGED <<kword, krep0, krep, kenv0>>
    /\ UNCHANGED <<drv, tok, app, fnd>>

ShareNext ==
    \/ \E start \in 0..(Len(kword) - 1) : \E tar \in RunsAt(kword, start) : CoreReplace(start, tar)
    \/ \E pos \in 0..(Len(kword) - 1) : \E tar \in RunsAt(kword, pos) : CoreMatchEnv(pos, tar)

SpecShare == ShareInit /\ [][ShareNext]_vars

(***************************************************************************)
(* The properties.                                                         *)
(***************************************************************************)

\* line i of strm was a rule line that Rule.__init__ accepted
Parsed(i) == strm[i] # <<>> /\ ~Has(strm[i], "=") /\ RuleInit(strm[i]).exc = "none"

\* pass k has run to its end
PassOver(k) == k < Len(passes) \/ pc \in {"age", "line", "done"}

\* line i has been dealt with and the driver is at a later line or has returned
Handled(i) == i < Len(strm) \/ pc \in {"line", "done"}

RECURSIVE Visits(_)
\* the <<word, rule line>> of each call, the repeated calls of one rule on one
\* word taken once
Visits(calls) ==
    IF calls = <<>> THEN <<>>
    ELSE IF Len(calls) > 1 /\ calls[1].word = calls[2].word /\ calls[1].line = calls[2].line
    THEN Visits(Tail(calls))
    ELSE << <<calls[1].word, calls[1].line>> >> \o Visits(Tail(calls))

\* the lines of the rules of active that are applied at all, last added first
NewestFirst(active) ==
    Reversed([k \in DOMAIN SelectSeq(active, LAMBDA a : a.repeat > 0) |->
                 SelectSeq(active, LAMBDA a : a.repeat > 0)[k].line])

\* word after word, and for each word the rules newest first
WordMajor(nwords, lines) ==
    Flatten([w \in 1..nwords |-> [k \in DOMAIN lines |-> <<w, lines[k]>>]])

IsPrefix(a, b) == Len(a) <= Len(b) /\ SubSeq(b, 1, Len(a)) = a

\* C1: every rule line that parses, and no other line, appends its rule to the
\* active list and starts exactly one pass; the passes follow the order of the
\* lines; in a pass the calls go word after word and, for each word, through the
\* active rules from the newest to the oldest; and of a pass that is over (one
\* that a later pass follows, in particular) that is the full list of its calls.
C1_NewestFirstPassPerRule ==
    /\ \A i \in DOMAIN strm :
          Parsed(i) <=> Cardinality({k \in DOMAIN passes : passes[k].line = i}) = 1
    /\ \A k \in DOMAIN passes :
          /\ passes[k].active # <<>>
          /\ passes[k].active[Len(passes[k].active)].line = passes[k].line
          /\ k > 1 => passes[k - 1].line < passes[k].line
          /\ IsPrefix(Visits(passes[k].calls),
                      WordMajor(Len(Words), NewestFirst(passes[k].active)))
          /\ PassOver(k) => Visits(passes[k].calls) =
                                WordMajor(Len(Words), NewestFirst(passes[k].active))

\* a pass with two active rules has been made over both words and is over
C1_Witness ==
    /\ pc = "line"
    /\ \E k \in DOMAIN passes :
          /\ Len(passes[k].active) = 2
          /\ Len(Visits(passes[k].calls)) = 2 * Len(Words)
          /\ Len(Words) = 2

\* the age a rule line states: "age:2", else the default 1
AgeLines == {LineNoMatch, LineNoEnv, LineAgeValue}
StatedAge(flow) == IF flow = LineAgeValue THEN 2 ELSE 1

\* C2: a rule of age N is active in exactly the first N passes made from its own
\* line on: of the passes started at or after its line, it is active in one
\* exactly when that pass is among the first N of them.
C2_ActiveForAgePasses ==
    \A i \in DOMAIN strm :
        strm[i] \in AgeLines =>
            \A k \in DOMAIN passes :
                passes[k].line >= i =>
                    ((\E a \in DOMAIN passes[k].active : passes[k].active[a].line = i)
                     <=> Cardinality({j \in DOMAIN passes :
                                        i <= passes[j].line /\ passes[j].line <= passes[k].line})
                            <= StatedAge(strm[i]))

\* the repeat a rule line states: "repeat:2", else the default 1
RepeatLines == {LineNoMatch, LineNoEnv, LineRepValue}
StatedRepeat(flow) == IF flow = LineRepValue THEN 2 ELSE 1

\* the calls of pass p that apply the rule of line i to word w
CallsOn(p, w, i) == SelectSeq(p.calls, LAMBDA c : c.word = w /\ c.line = i)

\* C3: once the line of a rule with repeat N has been dealt with, its pass has
\* applied the rule to every word at least once and at most N times, every call
\* but the last returned a changed word, and fewer than N calls were made only
\* because the last one signalled WordUnchanged.
C3_RepeatUntilUnchanged ==
    \A i \in DOMAIN strm :
        (strm[i] \in RepeatLines /\ Handled(i)) =>
            \E k \in DOMAIN passes :
                /\ passes[k].line = i
                /\ \A w \in DOMAIN Words :
                      /\ Len(CallsOn(passes[k], w, i)) >= 1
                      /\ Len(CallsOn(passes[k], w, i)) <= StatedRepeat(strm[i])
                      /\ \A m \in 1..(Len(CallsOn(passes[k], w, i)) - 1) :
                            CallsOn(passes[k], w, i)[m].exc = "none"
                      /\ Len(CallsOn(passes[k], w, i)) < StatedRepeat(strm[i]) =>
                            CallsOn(passes[k], w, i)[Len(CallsOn(passes[k], w, i))].exc
                                = "WordUnchanged"

MalformedLines == {LineBadFlags, LineTwoOps, LineCatTwoEq, LineCatUnknown}

\* the parser of the last line read raised
LastLineUnparsed ==
    /\ strm # <<>>
    /\ strm[Len(strm)] \in MalformedLines
    /\ IF Has(strm[Len(strm)], "=")
       THEN CatLineBody(atLine.Cats, strm[Len(strm)]).exc # "none"
       ELSE RuleInit(strm[Len(strm)]).exc # "none"

\* C6: a line that does not parse is skipped: the driver is at the next line (or
\* has returned), no rule was appended and none aged, no pass was made for the
\* line, and the words and the categories are what they were.
C6_UnparsedLineSkipped ==
    LastLineUnparsed =>
        /\ pc \in {"line", "done"}
        /\ Rules = atLine.Rules
        /\ Words = atLine.Words
        /\ Cats = atLine.Cats
        /\ \A k \in DOMAIN passes : passes[k].line # Len(strm)

\* C7: no category of the store is empty, and a category line that took a
\* category out of the store leaves the driver at the next line (or returned).
C7_BlankCategoryRemovedAndOn ==
    /\ \A name \in DOMAIN Cats : Cats[name].vals # <<>>
    /\ (/\ strm # <<>>
        /\ Has(strm[Len(strm)], "=")
        /\ (DOMAIN atLine.Cats) \ (DOMAIN Cats) # {})
       => pc \in {"line", "done"}

\* the token list begins and ends with '#' and has no two '#' side by side
Bounded(tokens) ==
    /\ tokens # <<>>
    /\ tokens[1] = <<"#">> /\ tokens[Len(tokens)] = <<"#">>
    /\ \A i \in 1..(Len(tokens) - 1) : ~(tokens[i] = <<"#">> /\ tokens[i + 1] = <<"#">>)

\* no token is or holds the separator
SeparatorFree(tokens, sep) == \A i \in DOMAIN tokens : ~Has(tokens[i], sep)

\* C8: the token list of a text begins and ends with '#', has no two '#' side
\* by side, and, when the text has no '#' of its own, one '#' between any two
\* of its words and none besides.
C8_SingleBoundaries ==
    tpc # "text" =>
        /\ Bounded(phones)
        /\ ~Has(lexeme, "#") => Count(phones, <<"#">>) = Len(SplitWS(lexeme)) + 1

\* C9: no token of the token list of a text is or holds the separator.
C9_NoSeparatorInTokens ==
    tpc # "text" => SeparatorFree(phones, graphs[1][1])

\* C10: a token list made from a text, written back with __str__ and tokenized
\* again under the same graphs, is the same token list (stated for the token
\* lists that are bounded by single '#' and free of the separator).
C10_RoundTrip ==
    (tpc = "again" /\ Bounded(phones) /\ SeparatorFree(phones, graphs[1][1]))
        => phones2 = phones

RECURSIVE Rewritten(_, _, _)
\* word with every run of tokens equal to tar replaced by rep, the runs taken
\* from the left and not overlapping, every other token kept in its place
Rewritten(word, tar, rep) ==
    IF word = <<>> THEN <<>>
    ELSE IF tar # <<>> /\ Len(word) >= Len(tar) /\ SubSeq(word, 1, Len(tar)) = tar
    THEN rep \o Rewritten(SubSeq(word, Len(tar) + 1, Len(word)), tar, rep)
    ELSE <<Head(word)>> \o Rewritten(Tail(word), tar, rep)

\* the rules with one literal target and no environment, their target and
\* their replacement
LiteralLines == {LineSubst, LineNoMatch, LineDelete, LinePair}
LiteralTar(flow) ==
    CASE flow = LineSubst   -> << <<"a">> >>
      [] flow = LineNoMatch -> << <<"c">> >>
      [] flow = LineDelete  -> << <<"a">> >>
      [] OTHER              -> << <<"a">>, <<"b">> >>
LiteralRep(flow) ==
    CASE flow = LineSubst   -> << <<"b">> >>
      [] flow = LineNoMatch -> << <<"d">> >>
      [] flow = LineDelete  -> <<>>
      [] OTHER              -> << <<"c">> >>

\* C11: after applyRule with a substitution or deletion rule whose target is
\* literal, the word is the word before the call with every run matching the
\* target replaced by the replacement (by nothing for a deletion) and every
\* other token unchanged and in its place.
C11_LiteralRunsReplaced ==
    (napp > 0 /\ arule \in LiteralLines)
        => aword = Rewritten(abefore, LiteralTar(arule), LiteralRep(arule))

\* word with rep put in at every slot of slots; slot p is the place before the
\* token of index p (0-based), slot len(word) the place after the last token
Inserted(word, rep, slots) ==
    Flatten([q \in 1..(Len(word) + 1) |->
                (IF (q - 1) \in slots THEN rep ELSE <<>>)
                \o (IF q <= Len(word) THEN <<word[q]>> ELSE <<>>)])

\* the slots of word that pass the gate of an epenthesis rule: all of 0..len for
\* "+c", those with '#' right after them for "+b/_#"
GatedSlots(word, flow) ==
    IF flow = LineAppend
    THEN {p \in 0..Len(word) : p < Len(word) /\ word[p + 1] = <<"#">>}
    ELSE 0..Len(word)

\* C12: after applyRule with an epenthesis rule the word is the word before the
\* call with the replacement inserted at every slot of 0..len(word) that passes
\* the gate, and nowhere else.
C12_InsertedAtGatedSlots ==
    (napp > 0 /\ arule \in {LineAppend, LineEpenthesis})
        => aword = Inserted(abefore, IF arule = LineAppend THEN << <<"b">> >> ELSE << <<"c">> >>,
                            GatedSlots(abefore, arule))

\* C13: after applyRule with the metathesis rule "a.b>?" every run a b of the
\* word before the call stands reversed, b a, and the word is a permutation of
\* the word before the call.
C13_MatchedRunReversed ==
    (napp > 0 /\ arule = LineSwap)
        => /\ aword = Rewritten(abefore, << <<"a">>, <<"b">> >>, << <<"b">>, <<"a">> >>)
           /\ \A t \in {<<"a">>, <<"b">>, <<"#">>} : Count(aword, t) = Count(abefore, t)

\* word with every token that stands at index i of tarCat replaced by the
\* element at index i of repCat
Corresponded(word, tarCat, repCat) ==
    [p \in DOMAIN word |->
        IF \E i \in DOMAIN tarCat : tarCat[i] = word[p]
        THEN repCat[CHOOSE i \in DOMAIN tarCat : tarCat[i] = word[p]]
        ELSE word[p]]

\* C14: after applyRule with "[a|b]>[b|a]", a rule whose target and replacement
\* are single categories of the same length, every token of the word that is
\* element i of the target category is element i of the replacement category.
C14_CategoryCorrespondence ==
    (napp > 0 /\ arule = LineCatMap)
        => aword = Corresponded(abefore, << <<"a">>, <<"b">> >>, << <<"b">>, <<"a">> >>)

\* C15: on a word where the target a stands at exactly one place, the call
\* word.applyRule(Rule("a>b ltr")) ends as word.applyRule(Rule("a>b")) does:
\* the same way of leaving the call and the same word.
C15_LtrSameAtOneSite ==
    (napp > 0 /\ arule = LineLtrSubst /\ Count(abefore, <<"a">>) = 1)
        => /\ RuleInit(LineLtrSubst).exc = "none"
           /\ [exc |-> aexc, val |-> aword] = applyRule(abefore, RuleInit(LineSubst).val)

RECURSIVE MatchEnds(_, _, _, _)
\* the positions at which a match of the pattern sub that begins at position i
\* of word and stays below end can end: a literal takes the token equal to it,
\* "*" takes any run of tokens, the empty run too, "(x)" takes x or nothing
MatchEnds(word, sub, i, end) ==
    IF sub = <<>> THEN {i}
    ELSE IF Head(sub) = <<"*">>
    THEN UNION {MatchEnds(word, Tail(sub), k, end) : k \in i..end}
    ELSE IF Head(sub)[1] = "("
    THEN MatchEnds(word, <<Slice(Head(sub), 1, Len(Head(sub)) - 1)>> \o Tail(sub), i, end)
         \cup MatchEnds(word, Tail(sub), i, end)
    ELSE IF i < end /\ word[i + 1] = Head(sub) THEN MatchEnds(word, Tail(sub), i + 1, end)
    ELSE {}

\* the indices of [start, end) at which sub matches within the range
MatchSites(word, sub, start, end) ==
    {i \in start..(end - 1) : MatchEnds(word, sub, i, end) # {}}

Smallest(S) == CHOOSE i \in S : \A m \in S : i <= m

\* a pattern of literals, one at least
LiteralPattern(sub) == sub # <<>> /\ \A k \in DOMAIN sub : sub[k] \in {<<"a">>, <<"#">>}

\* both finds have been called with a pattern of literals on a word bounded by
\* single '#'
LiteralFindDone == fpc = "core" /\ LiteralPattern(fsub) /\ Bounded(fword)

StrictlyDecreasing(s) == \A k \in 1..(Len(s) - 1) : s[k] > s[k + 1]

\* C17: for every target of a rule, with a count selector or without, matchTar
\* comes to positions to go through, and these are strictly decreasing and lie
\* in [0, len(word)).
C17_PositionsDecreasingInRange ==
    (napp > 0 /\ arule \in RuleSet) =>
        \A t \in DOMAIN RuleInit(arule).val.tars :
            /\ Candidates(abefore, RuleInit(arule).val.tars[t]).exc = "none"
            /\ StrictlyDecreasing(Candidates(abefore, RuleInit(arule).val.tars[t]).val)
            /\ \A k \in DOMAIN Candidates(abefore, RuleInit(arule).val.tars[t]).val :
                  /\ 0 <= Candidates(abefore, RuleInit(arule).val.tars[t]).val[k]
                  /\ Candidates(abefore, RuleInit(arule).val.tars[t]).val[k] < Len(abefore)

\* the rules that replace one token by one token, their target, their
\* replacement, and whether the token of index p (1-based) passes their gate:
\* "a>b" has the default environment '_', "a>b/_b" asks for b right after,
\* "b>c!#_" has the default environment and excepts a '#' right before
GateLines == {LineSubst, LineBefore, LineExcept}
GateTar(flow) == IF flow = LineExcept THEN <<"b">> ELSE <<"a">>
GateRep(flow) == IF flow = LineExcept THEN <<"c">> ELSE <<"b">>
PassesGate(word, p, flow) ==
    CASE flow = LineSubst  -> TRUE
      [] flow = LineBefore -> p < Len(word) /\ word[p + 1] = <<"b">>
      [] OTHER             -> ~(p > 1 /\ word[p - 1] = <<"#">>)

\* C18: after applyRule a token of the word has been replaced exactly when it
\* matches the target, no exception matches at its position and an environment
\* does; with no environment given every match passes.
C18_ActedOnIffGated ==
    (napp > 0 /\ arule \in GateLines) =>
        aword = [p \in DOMAIN abefore |->
                    IF abefore[p] = GateTar(arule) /\ PassesGate(abefore, p, arule)
                    THEN GateRep(arule) ELSE abefore[p]]

\* a pattern P * Q, P and Q of literals
OneWildcard(sub) ==
    /\ Count(sub, <<"*">>) = 1
    /\ \A k \in DOMAIN sub : sub[k] \in {<<"a">>, <<"#">>, <<"*">>}

\* r, a result of find, reports the first match of the range, or -1 for none
ReportsFirstMatch(r) ==
    /\ (r = -1) <=> MatchSites(fword, fsub, fstart, fend) = {}
    /\ (r # -1) => r + fstart = Smallest(MatchSites(fword, fsub, fstart, fend))

\* C19: for a pattern P * Q find reports a match exactly when, somewhere in the
\* range, P matches and Q matches at or after the end of P, the wildcard taking
\* any run of tokens, the empty run at the end of the range included.
C19_WildcardAnyRun ==
    (fpc = "core" /\ OneWildcard(fsub) /\ Bounded(fword))
        => ReportsFirstMatch(fsce) /\ ReportsFirstMatch(fcore)

\* C20: no call of applyRule goes on for ever in matchTar.
C20_MatchingTerminates == aexc # "diverges" /\ apc # "hung"

RECURSIVE ReplacedFromRight(_, _, _, _)
\* word after the positions p, p-1, ..., 0 have been gone through in that
\* order, the run at a position replaced by rep exactly when it equals tar at
\* the moment the position is reached
ReplacedFromRight(word, tar, rep, p) ==
    IF p < 0 THEN word
    ELSE IF p + Len(tar) <= Len(word) /\ SubSeq(word, p + 1, p + Len(tar)) = tar
    THEN ReplacedFromRight(SubSeq(word, 1, p) \o rep \o SubSeq(word, p + Len(tar) + 1, Len(word)),
                           tar, rep, p - 1)
    ELSE ReplacedFromRight(word, tar, rep, p - 1)

\* C21: after applyRule with "a.a>b", whose matches overlap in a a a, the word
\* is the word before the call with the matches replaced from the highest
\* position down, a run replaced only if it still is a a when its turn comes:
\* no stale match overwrites tokens that no longer match.
C21_ReplacedRunsMatchWhenReplaced ==
    (napp > 0 /\ arule = LineOverlap)
        => aword = ReplacedFromRight(abefore, << <<"a">>, <<"a">> >>, << <<"b">> >>,
                                     Len(abefore))

\* the positions (1-based) of word at which "a>b/_b" finds its target with its
\* environment: an a with a b right after it
GatedAtStart(word) ==
    {p \in DOMAIN word : word[p] = <<"a">> /\ p < Len(word) /\ word[p + 1] = <<"b">>}

\* C22: after applyRule with "a>b/_b" the word is the word before the call with
\* b at exactly the positions that passed the gate in the word as it was when
\* the call began, all of them replaced at once: a b put in at a higher
\* position does not let the a before it pass.
C22_GatedOnWordAtStart ==
    (napp > 0 /\ arule = LineBefore)
        => /\ Len(aword) = Len(abefore)
           /\ \A p \in DOMAIN abefore :
                 aword[p] = IF p \in GatedAtStart(abefore) THEN <<"b">> ELSE abefore[p]

\* the calls that can be made on the word as it is now
CallsNow == {<<start, tar>> : start \in 0..(Len(kword) - 1), tar \in UNION {RunsAt(kword, p) : p \in 0..(Len(kword) - 1)}}

\* C23: calling replace and match_env with a rule's replacement list and
\* environment list leaves both lists as they were when the rule was made,
\* '%' and '<' included, so that the next call on any word gives what it
\* would give with the lists as they were made.
C23_RuleUnchangedByCalls ==
    /\ krep = krep0
    /\ kenv = kenv0
    /\ \A c \in CallsNow :
          /\ coreReplace(kword, c[1], c[2], krep).phones = coreReplace(kword, c[1], c[2], krep0).phones
          /\ match_env(kword, kenv, c[1], c[2]).res = match_env(kword, kenv0, c[1], c[2]).res

=============================================================================
